---- MODULE Spec2Model ----
(***************************************************************************)
(* Model of dags/real_state_ETL.py: the three task callables               *)
(* (extract_data, transform_data, load_to_hdfs), the two Hive bash tasks   *)
(* and the DAG that chains them under default_args.                        *)
(*                                                                         *)
(* Two specifications share the variables:                                 *)
(*   SpecCall  the callables invoked directly on a task-instance context,  *)
(*             in any order (as `airflow tasks test` does);                *)
(*   Spec      scheduled DAG runs: dependencies, retries, HDFS and Hive.   *)
(***************************************************************************)
EXTENDS Integers, Sequences, FiniteSets, TLC

VARIABLES
    inputFile,   \* CSV text at INPUT_FILE
    outputFile,  \* CSV text at OUTPUT_FILE, as an option (<<>> = no file)
    xcom,        \* XCom values of the current run, by key, as options
    rawKind,     \* where xcom.raw_data came from: "none", "input", "cleaned"
    pulls,       \* number of xcom_pull calls in the current run, by key
    lastT,       \* log of the last transform_data call
    ts,          \* task-instance state of each task of the current run
    tries,       \* try_number of each task of the current run
    run,         \* number of the current DAG run
    hdfsDir,     \* whether /user/hive/warehouse/real_estate exists in HDFS
    hdfs,        \* files of that directory: name -> CSV text
    hiveTable,   \* whether table real_estate_sales exists
    counts,      \* results of SELECT COUNT(*), in the order returned
    lastLoad,    \* log of the last load_to_hdfs call
    lastHive     \* log of the last attempt of Load_Hive_Table

callVars == <<inputFile, outputFile, xcom, rawKind, pulls, lastT>>
dagVars  == <<ts, tries, run>>
hiveVars == <<hdfsDir, hdfs, hiveTable, counts, lastLoad, lastHive>>
vars     == <<inputFile, outputFile, xcom, rawKind, pulls, lastT,
              ts, tries, run,
              hdfsDir, hdfs, hiveTable, counts, lastLoad, lastHive>>

----------------------------------------------------------------------------
(* Bounds *)

\* cells (rows x columns) of an input CSV in SpecCall
MaxCells == 5
\* cells of the input CSV in Spec
PipeCells == 2
\* DAG runs in Spec
MaxRuns == 2
\* transform_data calls in SpecCall
MaxCalls == 2

----------------------------------------------------------------------------
(* Values *)

\* default_args['retries']
retries == 1

RT == "Residential Type"
SALEID == "SaleID"
ColumnNames == {RT, SALEID, "Town", "Address"}

\* pandas' missing value (NaN / None)
NaN == -1
\* non-missing cell values of the input file
Values == {11, 12}
\* integers that occur as cells, SaleIDs or index labels
IntDomain == 0 .. 12

None == <<>>
Some(x) == <<x>>

Elems(s) == {s[i] : i \in DOMAIN s}
Positions(s) == [i \in 1 .. Len(s) |-> i]

----------------------------------------------------------------------------
(* Text formats: CSV fields and JSON leaves are strings *)

FormatField(v) == IF v = NaN THEN "" ELSE ToString(v)
ParseInt(s) == CHOOSE v \in IntDomain : ToString(v) = s
ParseField(s) == IF s = "" THEN NaN ELSE ParseInt(s)

JsonValue(v) == IF v = NaN THEN "null" ELSE ToString(v)
FromJson(s) == IF s = "null" THEN NaN ELSE ParseInt(s)

DataFrame(cols, idx, data) == [columns |-> cols, index |-> idx, data |-> data]
EmptyDF == DataFrame(<<>>, <<>>, <<>>)
\* len(df)
len(df) == Len(df.index)

\* pd.read_csv: header row gives the columns, a RangeIndex 0..n-1,
\* empty fields become NaN
read_csv(csv) ==
    DataFrame(csv.header,
              [i \in 1 .. Len(csv.lines) |-> i - 1],
              [i \in 1 .. Len(csv.lines) |->
                  [k \in 1 .. Len(csv.header) |-> ParseField(csv.lines[i][k])]])

\* df.to_csv(path, index=False): header and rows, no index column
to_csv(df) ==
    [header |-> df.columns,
     lines  |-> [i \in 1 .. len(df) |->
                   [k \in 1 .. Len(df.columns) |-> FormatField(df.data[i][k])]]]

\* df.to_json(): {"column": {"index label": value, ...}, ...}
to_json(df) ==
    [k \in 1 .. Len(df.columns) |->
        <<df.columns[k],
          [i \in 1 .. len(df) |->
              <<ToString(df.index[i]), JsonValue(df.data[i][k])>>]>>]

\* pd.read_json(text): the inverse reading; with no column there is no index
read_json(j) ==
    LET idx == IF Len(j) = 0 THEN <<>>
               ELSE [i \in 1 .. Len(j[1][2]) |-> ParseInt(j[1][2][i][1])]
    IN DataFrame([k \in 1 .. Len(j) |-> j[k][1]],
                 idx,
                 [i \in 1 .. Len(idx) |->
                     [k \in 1 .. Len(j) |-> FromJson(j[k][2][i][2])]])

\* length of the JSON text: at least the two braces
StrLen(j) == 2 + Len(j)

\* `not raw_data_json`: None and the empty string are falsy
\* (variant: a frame without rows taken for an absent payload)
IsFalsyMutant(v) == v = None \/ len(read_json(v[1])) = 0
IsFalsy(v) == v = None \/ StrLen(v[1]) = 0

----------------------------------------------------------------------------
(* pandas operations used by transform_data *)

\* df.drop(columns=[c])
\* (variant: the column is not dropped)
dropMutant(df, c) == df
drop(df, c) ==
    LET keep == SelectSeq(Positions(df.columns), LAMBDA k : df.columns[k] # c)
    IN DataFrame([m \in 1 .. Len(keep) |-> df.columns[keep[m]]],
                 df.index,
                 [i \in 1 .. len(df) |->
                     [m \in 1 .. Len(keep) |-> df.data[i][keep[m]]]])

\* df.dropna(): keeps the rows without any missing value, and their labels
\* (variant: dropna(how='all'), only rows missing every value are dropped)
dropnaMutant(df) ==
    LET keep == SelectSeq(Positions(df.index),
                          LAMBDA i : Len(df.columns) = 0
                                     \/ \E k \in 1 .. Len(df.columns) :
                                            df.data[i][k] # NaN)
    IN DataFrame(df.columns,
                 [m \in 1 .. Len(keep) |-> df.index[keep[m]]],
                 [m \in 1 .. Len(keep) |-> df.data[keep[m]]])
dropna(df) ==
    LET keep == SelectSeq(Positions(df.index),
                          LAMBDA i : \A k \in 1 .. Len(df.columns) :
                                         df.data[i][k] # NaN)
    IN DataFrame(df.columns,
                 [m \in 1 .. Len(keep) |-> df.index[keep[m]]],
                 [m \in 1 .. Len(keep) |-> df.data[keep[m]]])

\* range(a, b)
\* (variant: numbering from a - 1)
rangeMutant(a, b) == [i \in 1 .. (b - a) |-> a + i - 2]
range(a, b) == [i \in 1 .. (b - a) |-> a + i - 1]

InsertAt(s, loc, x) == SubSeq(s, 1, loc) \o <<x>> \o SubSeq(s, loc + 1, Len(s))

\* df.insert raises ValueError when the column already exists
\* (variant: allow_duplicates=True, insert never raises)
InsertRaisesMutant(df, column) == FALSE
InsertRaises(df, column) == column \in Elems(df.columns)

\* df.insert(loc, column, value), value taken by position
insert(df, loc, column, value) ==
    DataFrame(InsertAt(df.columns, loc, column),
              df.index,
              [i \in 1 .. len(df) |-> InsertAt(df.data[i], loc, value[i])])

----------------------------------------------------------------------------
(* transform_data as a function of the pulled XCom value and of whether    *)
(* os.makedirs succeeds                                                    *)

NoCall == [called |-> FALSE, kind |-> "none", error |-> "",
           in |-> EmptyDF, out |-> EmptyDF]

transform_data(raw, kind, makedirsOk) ==
    LET df0 == read_json(raw[1])
        df1 == IF RT \in Elems(df0.columns) THEN drop(df0, RT) ELSE df0
        df2 == dropna(df1)
        df3 == insert(df2, 0, SALEID, range(1, len(df2) + 1))
    IN IF IsFalsy(raw)
       THEN [called |-> TRUE, kind |-> kind, error |-> "ValueError: no data",
             in |-> EmptyDF, out |-> EmptyDF]
       ELSE IF InsertRaises(df2, SALEID)
       THEN [called |-> TRUE, kind |-> kind,
             error |-> "ValueError: already exists",
             in |-> df0, out |-> EmptyDF]
       ELSE IF ~makedirsOk
       THEN [called |-> TRUE, kind |-> kind, error |-> "OSError: makedirs",
             in |-> df0, out |-> EmptyDF]
       ELSE [called |-> TRUE, kind |-> kind, error |-> "",
             in |-> df0, out |-> df3]

\* The keys a task callable pulls from XCom
\* (variant: load_to_hdfs pulls 'transformed_data')
XComPullKeysMutant(task) ==
    IF task = "Transform_Data" THEN {"raw_data"}
    ELSE IF task = "Load_To_HDFS" THEN {"transformed_data"}
    ELSE {}
XComPullKeys(task) == IF task = "Transform_Data" THEN {"raw_data"} ELSE {}

\* The key a task callable pushes to XCom
XComPushKey(task) ==
    IF task = "Extract_Data" THEN {"raw_data"}
    ELSE IF task = "Transform_Data" THEN {"transformed_data"}
    ELSE {}

CountPulls(task) ==
    [k \in {"raw_data", "transformed_data"} |->
        IF k \in XComPullKeys(task) THEN pulls[k] + 1 ELSE pulls[k]]

\* Effect of extract_data when pd.read_csv succeeds
ExtractEffect ==
    /\ xcom' = [xcom EXCEPT !.raw_data = Some(to_json(read_csv(inputFile)))]
    /\ rawKind' = "input"
    /\ pulls' = CountPulls("Extract_Data")
    /\ UNCHANGED <<inputFile, outputFile, lastT>>

\* Effect of transform_data
TransformEffect(makedirsOk) ==
    LET r == transform_data(xcom.raw_data, rawKind, makedirsOk)
    IN /\ lastT' = r
       /\ pulls' = CountPulls("Transform_Data")
       /\ IF r.error = ""
          THEN /\ outputFile' = Some(to_csv(r.out))
               /\ xcom' = [xcom EXCEPT !.transformed_data = Some(to_json(r.out))]
          ELSE UNCHANGED <<outputFile, xcom>>
       /\ UNCHANGED <<inputFile, rawKind>>

----------------------------------------------------------------------------
(* Input files *)

SeqsUpTo(S, n) == UNION {[1 .. k -> S] : k \in 0 .. n}
Headers == {h \in SeqsUpTo(ColumnNames, Cardinality(ColumnNames)) :
               /\ Len(h) >= 1
               /\ \A i, j \in 1 .. Len(h) : i # j => h[i] # h[j]}
Fields == {FormatField(v) : v \in Values \cup {NaN}}
\* CSV files of at most `cells` cells and at least one column
CsvFiles(cells) ==
    UNION {{[header |-> h, lines |-> l] :
               l \in SeqsUpTo([1 .. Len(h) -> Fields], cells \div Len(h))} :
           h \in {g \in Headers : Len(g) <= IF cells = 0 THEN 1 ELSE cells}}

\* an output file left by an earlier run
StaleCsv == [header |-> <<SALEID, "Town">>, lines |-> <<<<"1", "12">>>>]

Tasks == <<"Extract_Data", "Transform_Data", "Load_To_HDFS",
           "Create_Hive_Table", "Load_Hive_Table">>

NoLoad == [called |-> FALSE, mkdirErr |-> FALSE, writeAttempted |-> FALSE,
           written |-> FALSE, statusAsked |-> FALSE, statusErr |-> FALSE,
           raised |-> FALSE]

NoHive == [issued |-> FALSE, table |-> FALSE, source |-> FALSE,
           counted |-> FALSE]

InitRest ==
    /\ xcom = [raw_data |-> None, transformed_data |-> None]
    /\ rawKind = "none"
    /\ pulls = [raw_data |-> 0, transformed_data |-> 0]
    /\ lastT = NoCall
    /\ ts = [t \in 1 .. Len(Tasks) |-> "none"]
    /\ tries = [t \in 1 .. Len(Tasks) |-> 0]
    /\ run = 1
    /\ hdfsDir = FALSE
    /\ hdfs = [n \in {} |-> 0]
    /\ hiveTable = FALSE
    /\ counts = <<>>
    /\ lastLoad = NoLoad
    /\ lastHive = NoHive

----------------------------------------------------------------------------
(* SpecCall: the callables invoked directly *)

InitCall ==
    /\ inputFile \in CsvFiles(MaxCells)
    /\ outputFile \in {None, Some(StaleCsv)}
    /\ InitRest

CallExtract ==
    /\ ExtractEffect
    /\ UNCHANGED <<dagVars, hiveVars>>

CallTransform ==
    /\ pulls.raw_data < MaxCalls
    /\ \E makedirsOk \in BOOLEAN : TransformEffect(makedirsOk)
    /\ UNCHANGED <<dagVars, hiveVars>>

\* extract_data run with the cleaned output file as its input
CallExtractCleaned ==
    /\ lastT.called /\ lastT.error = ""
    /\ xcom' = [xcom EXCEPT !.raw_data = Some(to_json(read_csv(outputFile[1])))]
    /\ rawKind' = "cleaned"
    /\ pulls' = CountPulls("Extract_Data")
    /\ UNCHANGED <<inputFile, outputFile, lastT>>
    /\ UNCHANGED <<dagVars, hiveVars>>

NextCall == CallExtract \/ CallTransform \/ CallExtractCleaned

SpecCall == InitCall /\ [][NextCall]_vars

----------------------------------------------------------------------------
(* load_to_hdfs *)

HDFS_FILE == "real_estate_sales.csv"

\* lines 90-94: an exception of hdfs_client.makedirs is printed, not raised
\* (variant: the exception is re-raised)
MakedirsErrorFatalMutant == TRUE
MakedirsErrorFatal == FALSE

\* lines 96-105: hdfs_client.status is called inside the try block whose
\* except clause re-raises
\* (variant: the size query outside the try block, its error ignored)
StatusErrorFatalMutant == FALSE
StatusErrorFatal == TRUE

\* The outcome of load_to_hdfs, given whether makedirs, write and status
\* succeed; open(OUTPUT_FILE) fails when there is no output file
load_to_hdfs(mkOk, wrOk, stOk) ==
    LET abort == ~mkOk /\ MakedirsErrorFatal
        attempted == ~abort
        written == attempted /\ wrOk /\ outputFile # None
        asked == written
        statusErr == asked /\ ~stOk
    IN [called |-> TRUE,
        mkdirErr |-> ~mkOk,
        writeAttempted |-> attempted,
        written |-> written,
        statusAsked |-> asked,
        statusErr |-> statusErr,
        raised |-> abort \/ (attempted /\ ~written)
                         \/ (statusErr /\ StatusErrorFatal)]

LoadToHdfsEffect(mkOk, wrOk, stOk) ==
    LET r == load_to_hdfs(mkOk, wrOk, stOk)
    IN /\ lastLoad' = r
       /\ hdfsDir' = (hdfsDir \/ mkOk \/ r.written)
       /\ IF r.written
          THEN hdfs' = [n \in DOMAIN hdfs \cup {HDFS_FILE} |->
                           IF n = HDFS_FILE THEN outputFile[1] ELSE hdfs[n]]
          ELSE UNCHANGED hdfs
       /\ pulls' = CountPulls("Load_To_HDFS")
       /\ UNCHANGED <<inputFile, outputFile, xcom, rawKind, lastT,
                      hiveTable, counts, lastHive>>

----------------------------------------------------------------------------
(* The Hive tasks *)

\* A bash task's attempt: beeline runs the script ("ok"), beeline fails
\* ("beeline_error"), or the attempt is killed before or after beeline ran.
BashOutcomes == {"ok", "beeline_error", "killed_before", "killed_after"}

\* The script's last command is echo, so its exit status is 0 whatever
\* docker and beeline did; only a killed attempt fails.
BashTaskSucceeds(outcome) == outcome \in {"ok", "beeline_error"}

\* whether beeline executed the SQL script
SqlRan(outcome) == outcome \in {"ok", "killed_after"}

CopyName(k) == "real_estate_sales_copy_" \o ToString(k) \o ".csv"

\* the name Hive gives a loaded file whose name is taken in the table
\* directory: the first free <name>_copy_<k>
FreshCopy(files) ==
    CopyName(CHOOSE k \in 1 .. (Cardinality(DOMAIN files) + 1) :
                /\ CopyName(k) \notin DOMAIN files
                /\ \A j \in 1 .. (k - 1) : CopyName(j) \in DOMAIN files)

\* LOAD DATA INPATH '<HDFS_PATH>' INTO TABLE: the file is moved into the
\* table directory (here: renamed inside it), nothing is overwritten
\* (variant: the file is copied and stays at the source path)
LoadDataInpathMutant(files) ==
    [n \in DOMAIN files \cup {FreshCopy(files)} |->
        IF n = FreshCopy(files) THEN files[HDFS_FILE] ELSE files[n]]
LoadDataInpath(files) ==
    [n \in (DOMAIN files \ {HDFS_FILE}) \cup {FreshCopy(files)} |->
        IF n = FreshCopy(files) THEN files[HDFS_FILE] ELSE files[n]]

RECURSIVE SumLines(_, _)
SumLines(files, names) ==
    IF names = {} THEN 0
    ELSE LET n == CHOOSE m \in names : TRUE
         IN Len(files[n].lines) + SumLines(files, names \ {n})

\* SELECT COUNT(*): the lines of every file of the table directory, the
\* header line of each skipped (skip.header.line.count = 1)
SelectCount(files) == SumLines(files, DOMAIN files)

\* CREATE TABLE IF NOT EXISTS ... LOCATION '/user/hive/warehouse/real_estate/'
CreateHiveEffect(outcome) ==
    /\ IF SqlRan(outcome)
       THEN hiveTable' = TRUE /\ hdfsDir' = TRUE
       ELSE UNCHANGED <<hiveTable, hdfsDir>>
    /\ UNCHANGED <<callVars, hdfs, counts, lastLoad, lastHive>>

\* LOAD DATA INPATH ...; SELECT COUNT(*) ...: beeline stops at the first
\* statement that fails
LoadHiveEffect(outcome) ==
    /\ lastHive' = [issued |-> SqlRan(outcome),
                    table |-> hiveTable,
                    source |-> HDFS_FILE \in DOMAIN hdfs,
                    counted |-> SqlRan(outcome) /\ hiveTable
                                /\ HDFS_FILE \in DOMAIN hdfs]
    /\ IF lastHive'.counted
       THEN /\ hdfs' = LoadDataInpath(hdfs)
            /\ counts' = Append(counts, SelectCount(hdfs'))
       ELSE UNCHANGED <<hdfs, counts>>
    /\ UNCHANGED <<callVars, hdfsDir, hiveTable, lastLoad>>

----------------------------------------------------------------------------
(* Spec: DAG runs *)

T == 1 .. Len(Tasks)
Terminal == {"success", "failed", "upstream_failed"}

\* extract_task >> transform_task >> load_hdfs_task >>
\* create_hive_table_task >> load_hive_table_task
\* (variant: load_hdfs_task left out of the chain's dependencies)
UpstreamMutant(t) == IF t = 1 \/ t = 3 THEN {} ELSE {t - 1}
Upstream(t) == IF t = 1 THEN {} ELSE {t - 1}

Init ==
    /\ inputFile \in CsvFiles(PipeCells)
    /\ outputFile = None
    /\ InitRest

\* The scheduler starts an attempt of task t: every upstream task succeeded
\* (trigger rule all_success); the XCom values of t are cleared
Start(t) ==
    /\ ts[t] \in {"none", "up_for_retry"}
    /\ \A u \in Upstream(t) : ts[u] = "success"
    /\ ts' = [ts EXCEPT ![t] = "running"]
    /\ tries' = [tries EXCEPT ![t] = @ + 1]
    /\ xcom' = [k \in {"raw_data", "transformed_data"} |->
                   IF k \in XComPushKey(Tasks[t]) THEN None ELSE xcom[k]]
    /\ rawKind' = IF t = 1 THEN "none" ELSE rawKind
    /\ UNCHANGED <<inputFile, outputFile, pulls, lastT, run, hiveVars>>

\* The scheduler gives up on a task one of whose upstream tasks failed
UpstreamFailed(t) ==
    /\ ts[t] = "none"
    /\ \E u \in Upstream(t) : ts[u] \in {"failed", "upstream_failed"}
    /\ ts' = [ts EXCEPT ![t] = "upstream_failed"]
    /\ UNCHANGED <<callVars, tries, run, hiveVars>>

\* End of an attempt: a failed attempt is retried while try_number <= retries
Finish(t, ok) ==
    /\ ts' = [ts EXCEPT ![t] = IF ok THEN "success"
                               ELSE IF tries[t] <= retries THEN "up_for_retry"
                               ELSE "failed"]
    /\ UNCHANGED <<tries, run>>

RunExtract ==
    /\ ts[1] = "running"
    /\ \E readOk \in BOOLEAN :
          /\ IF readOk THEN ExtractEffect ELSE UNCHANGED callVars
          /\ Finish(1, readOk)
    /\ UNCHANGED hiveVars

RunTransform ==
    /\ ts[2] = "running"
    /\ \E makedirsOk \in BOOLEAN : TransformEffect(makedirsOk)
    /\ Finish(2, lastT'.error = "")
    /\ UNCHANGED hiveVars

RunLoadToHdfs ==
    /\ ts[3] = "running"
    /\ \E mkOk, wrOk, stOk \in BOOLEAN : LoadToHdfsEffect(mkOk, wrOk, stOk)
    /\ Finish(3, ~lastLoad'.raised)

RunCreateHive ==
    /\ ts[4] = "running"
    /\ \E outcome \in BashOutcomes :
          /\ CreateHiveEffect(outcome)
          /\ Finish(4, BashTaskSucceeds(outcome))

RunLoadHive ==
    /\ ts[5] = "running"
    /\ \E outcome \in BashOutcomes :
          /\ LoadHiveEffect(outcome)
          /\ Finish(5, BashTaskSucceeds(outcome))

\* The next daily run: fresh task instances and a fresh XCom namespace
NextRun ==
    /\ run < MaxRuns
    /\ \A t \in T : ts[t] \in Terminal
    /\ run' = run + 1
    /\ ts' = [t \in T |-> "none"]
    /\ tries' = [t \in T |-> 0]
    /\ xcom' = [raw_data |-> None, transformed_data |-> None]
    /\ rawKind' = "none"
    /\ pulls' = [raw_data |-> 0, transformed_data |-> 0]
    /\ lastT' = NoCall
    /\ lastLoad' = NoLoad
    /\ lastHive' = NoHive
    /\ UNCHANGED <<inputFile, outputFile, hdfsDir, hdfs, hiveTable, counts>>

Next ==
    \/ \E t \in T : Start(t)
    \/ \E t \in T : UpstreamFailed(t)
    \/ RunExtract
    \/ RunTransform
    \/ RunLoadToHdfs
    \/ RunCreateHive
    \/ RunLoadHive
    \/ NextRun

Spec == Init /\ [][Next]_vars

----------------------------------------------------------------------------
(* Properties of transform_data, checked under SpecCall *)

Succeeded == lastT.called /\ lastT.error = ""

\* a step in which transform_data ran: it pulled 'raw_data'
Pulled == pulls'.raw_data = pulls.raw_data + 1

\* the k-th smallest element of a set of integers
KthOf(S, k) == CHOOSE i \in S : Cardinality({j \in S : j < i}) = k - 1

\* positions of the rows of df with a missing value in some column
RowsWithMissing(df) ==
    {i \in 1 .. len(df) : \E k \in 1 .. Len(df.columns) : df.data[i][k] = NaN}

\* positions of the rows of df with a missing value in a column other than
\* 'Residential Type'
RowsWithMissingKept(df) ==
    {i \in 1 .. len(df) :
        \E k \in 1 .. Len(df.columns) :
            df.columns[k] # RT /\ df.data[i][k] = NaN}

\* row i of df without its 'Residential Type' cell
RowWithoutRT(df, i) ==
    LET P == {k \in 1 .. Len(df.columns) : df.columns[k] # RT}
    IN [m \in 1 .. Cardinality(P) |-> df.data[i][KthOf(P, m)]]

\* C1 as stated: output rows = input rows minus the input rows that contain
\* a missing value (in any column).
C1_RowCountAnyMissing ==
    Succeeded =>
        len(lastT.out) = len(lastT.in) - Cardinality(RowsWithMissing(lastT.in))

\* C1 amended: output rows = input rows minus the input rows that contain a
\* missing value in a column other than 'Residential Type'.
C1_RowCount ==
    Succeeded =>
        len(lastT.out) =
            len(lastT.in) - Cardinality(RowsWithMissingKept(lastT.in))

\* a successful call where one row is dropped for a missing value and another
\* row, missing only its 'Residential Type', is kept
C1_Witness ==
    /\ Succeeded
    /\ RowsWithMissingKept(lastT.in) # {}
    /\ RowsWithMissing(lastT.in) \ RowsWithMissingKept(lastT.in) # {}
    /\ len(lastT.out) >= 1

\* C2: the SaleID column of the output is 1..N in order, and the k-th output
\* row is the k-th surviving input row.
C2_SaleIdSequential ==
    Succeeded =>
        LET S == (1 .. len(lastT.in)) \ RowsWithMissingKept(lastT.in)
            N == len(lastT.out)
        IN /\ N = Cardinality(S)
           /\ Len(lastT.out.data) = N
           /\ lastT.out.columns[1] = SALEID
           /\ \A k \in 1 .. N :
                 /\ lastT.out.data[k][1] = k
                 /\ Tail(lastT.out.data[k]) = RowWithoutRT(lastT.in, KthOf(S, k))

\* two different rows survive around a dropped one
C2_Witness ==
    /\ Succeeded
    /\ lastT.out.index = <<0, 2>>
    /\ Tail(lastT.out.data[1]) # Tail(lastT.out.data[2])
    /\ lastT.out.data[2][1] = 2

\* C3: no 'Residential Type' column in the output; the other input columns
\* keep their names and order, after SaleID.
C3_Columns ==
    Succeeded =>
        /\ RT \notin Elems(lastT.out.columns)
        /\ lastT.out.columns =
               <<SALEID>> \o SelectSeq(lastT.in.columns, LAMBDA c : c # RT)

\* 'Residential Type' sits between two other columns of the input
C3_Witness ==
    /\ Succeeded
    /\ lastT.in.columns = <<"Town", RT, "Address">>
    /\ lastT.out.columns = <<SALEID, "Town", "Address">>

\* C4: a call without a 'raw_data' payload fails, leaves the output file as it
\* was and pushes nothing; a payload of zero rows is not taken for an absent
\* one.
C4_NoPayloadFails ==
    [][/\ (Pulled /\ xcom.raw_data = None) =>
            /\ lastT'.error = "ValueError: no data"
            /\ outputFile' = outputFile
            /\ xcom' = xcom
       /\ (Pulled /\ xcom.raw_data # None) =>
            lastT'.error # "ValueError: no data"]_vars

\* the call failed for want of a payload, next to an older output file
C4_Witness ==
    /\ lastT.called
    /\ lastT.error = "ValueError: no data"
    /\ outputFile = Some(StaleCsv)
    /\ xcom.transformed_data = None

\* C7 as stated: a second run on the cleaned output succeeds and yields the
\* same dataset.
C7_SecondRunSucceeds ==
    (lastT.called /\ lastT.kind = "cleaned") =>
        /\ lastT.error = ""
        /\ outputFile = Some(to_csv(lastT.out))
        /\ lastT.out.data = lastT.in.data

\* C7 amended: a second run on the cleaned output fails on the SaleID column
\* that is already there, and leaves the output file and the pushed payload
\* as the first run wrote them.
C7_SecondRunRaises ==
    [][(Pulled /\ rawKind = "cleaned") =>
          /\ lastT'.error = "ValueError: already exists"
          /\ outputFile' = outputFile
          /\ xcom' = xcom]_vars

\* the second run was made on a cleaned output of at least one row
C7_Witness ==
    /\ lastT.called
    /\ lastT.kind = "cleaned"
    /\ lastT.error = "ValueError: already exists"
    /\ len(lastT.in) >= 1
    /\ outputFile = Some(to_csv(lastT.in))

----------------------------------------------------------------------------
(* Properties of the DAG runs, checked under Spec *)

\* C5: a task is attempted only once its predecessor has succeeded, one task
\* runs at a time, and after a task has failed for good no later task of the
\* run is ever attempted.
C5_StrictOrder ==
    /\ \A t \in T : tries[t] > 0 => \A u \in 1 .. (t - 1) : ts[u] = "success"
    /\ \A t, u \in T : (ts[t] = "running" /\ ts[u] = "running") => t = u
    /\ \A t \in T : tries[t] <= retries + 1
    /\ \A t \in T :
          ts[t] = "failed" =>
              /\ tries[t] = retries + 1
              /\ \A u \in (t + 1) .. Len(Tasks) :
                    tries[u] = 0 /\ ts[u] \in {"none", "upstream_failed"}

\* Load_To_HDFS failed its retry after two tasks succeeded, and the Hive
\* tasks were given up
C5_Witness ==
    /\ ts = <<"success", "success", "failed", "upstream_failed",
              "upstream_failed">>
    /\ tries = <<1, 1, 2, 0, 0>>

\* C6: an error of makedirs does not stop load_to_hdfs (the upload is still
\* attempted and the stage succeeds if upload and size query do); a failed
\* upload is raised and fails the attempt.
C6_MakedirsSwallowed ==
    /\ lastLoad.mkdirErr => lastLoad.writeAttempted
    /\ (lastLoad.mkdirErr /\ lastLoad.written /\ ~lastLoad.statusErr) =>
           ~lastLoad.raised
    /\ (lastLoad.writeAttempted /\ ~lastLoad.written) => lastLoad.raised
    /\ ts[3] = "success" => (lastLoad.called /\ ~lastLoad.raised)
    /\ ts[3] \in {"up_for_retry", "failed"} => lastLoad.raised

\* makedirs failed and the stage succeeded all the same
C6_Witness ==
    /\ ts[3] = "success"
    /\ lastLoad.mkdirErr
    /\ lastLoad.written
    /\ HDFS_FILE \in DOMAIN hdfs

C9_ConsumedExactlyOnce ==
    ts[5] \in Terminal =>
        \A k \in {"raw_data", "transformed_data"} :
            xcom[k] # None => pulls[k] = 1

\* C9 amended: 'raw_data' is pulled once by every attempt of Transform_Data
\* (twice when the attempt is retried) and 'transformed_data' is never pulled.
C9_PullsPerAttempt ==
    /\ pulls.transformed_data = 0
    /\ pulls.raw_data = tries[2] - (IF ts[2] = "running" THEN 1 ELSE 0)
    /\ pulls.raw_data <= retries + 1

\* a finished run whose transform was retried: two pulls of 'raw_data', none
\* of the 'transformed_data' that was pushed
C9_Witness ==
    /\ ts[5] = "success"
    /\ xcom.raw_data # None /\ xcom.transformed_data # None
    /\ pulls = [raw_data |-> 2, transformed_data |-> 0]

\* C10: a failed size query fails the attempt although the file is already at
\* the target path; the stage succeeds only if upload and size query both
\* succeeded.
C10_StatusFailureFailsStage ==
    /\ (lastLoad.written /\ lastLoad.statusErr) => lastLoad.raised
    /\ (ts[3] \in {"up_for_retry", "failed"} /\ lastLoad.written) =>
          /\ lastLoad.statusErr
          /\ HDFS_FILE \in DOMAIN hdfs
          /\ hdfs[HDFS_FILE] = outputFile[1]
    /\ ts[3] = "success" =>
          (lastLoad.written /\ lastLoad.statusAsked /\ ~lastLoad.statusErr)

\* the stage failed for good on the size query, the file being uploaded
C10_Witness ==
    /\ ts[3] = "failed"
    /\ lastLoad.written /\ lastLoad.statusErr
    /\ HDFS_FILE \in DOMAIN hdfs
    /\ ts[4] = "upstream_failed"

====
